---- MODULE Spec2Model ----
(***************************************************************************)
(* A model of werkzeug.routing (src/werkzeug/routing.py): the pattern      *)
(* parser, the converters and their argument parser, Rule (bind, match,    *)
(* build, complexity) and Map (add_rule, match, build).                    *)
(*                                                                         *)
(* Text is a sequence of symbols.  A symbol is a one-character string      *)
(* ("/", "a", "7") or an atom that the code never looks inside (a          *)
(* subdomain, a server name, a scheme, a converter-argument key).  A       *)
(* placeholder of a pattern, <conv(args):name>, is one symbol of the       *)
(* pattern: _rule_re's lexing of the angle brackets is not modelled, the   *)
(* split into static and dynamic parts is.                                 *)
(***************************************************************************)
EXTENDS Integers, Sequences, FiniteSets, TLC

\* Python's None, for the values that are text or None.
None == "<None>"

\* Optional numbers (an int or None) are sets of at most one number.
NoneInt == {}

Some(n) == {n}

TheInt(o) == CHOOSE n \in o : TRUE

(***************************************************************************)
(* Text helpers: the str methods the code uses.                            *)
(***************************************************************************)
Take(s, n) == SubSeq(s, 1, n)

Drop(s, n) == SubSeq(s, n + 1, Len(s))

startswith(s, c) == Len(s) > 0 /\ s[1] = c

endswith(s, c) == Len(s) > 0 /\ s[Len(s)] = c

RECURSIVE lstrip(_, _)
lstrip(s, c) == IF startswith(s, c) THEN lstrip(Tail(s), c) ELSE s

RECURSIVE rstrip(_, _)
rstrip(s, c) == IF endswith(s, c) THEN rstrip(Take(s, Len(s) - 1), c) ELSE s

\* str.strip(): leading and trailing blanks removed.
strip(s) == rstrip(lstrip(s, " "), " ")

\* The first position of c in s, 0 when there is none.
Find(s, c) ==
    IF \E i \in 1..Len(s) : s[i] = c
    THEN CHOOSE i \in 1..Len(s) : s[i] = c /\ \A j \in 1..(i - 1) : s[j] # c
    ELSE 0

\* s.split(sep, 1): one piece, or the text before and after the first sep.
split1(s, sep) ==
    LET i == Find(s, sep)
    IN  IF i = 0 THEN <<s>> ELSE <<Take(s, i - 1), Drop(s, i)>>

\* s.split(sep): every piece.
RECURSIVE split(_, _)
split(s, sep) ==
    LET i == Find(s, sep)
    IN  IF i = 0 THEN <<s>> ELSE <<Take(s, i - 1)>> \o split(Drop(s, i), sep)

(***************************************************************************)
(* Decimal text and numbers: int(text) and unicode(number).                *)
(***************************************************************************)
DigitChars == <<"0", "1", "2", "3", "4", "5", "6", "7", "8", "9">>

IsDigit(c) == \E i \in 1..10 : DigitChars[i] = c

DigitVal(c) == (CHOOSE i \in 1..10 : DigitChars[i] = c) - 1

IsDigits(s) == Len(s) > 0 /\ \A i \in 1..Len(s) : IsDigit(s[i])

\* int(s) for a text of digits (leading zeros are dropped by the parse).
RECURSIVE int(_)
int(s) ==
    IF s = <<>> THEN 0
    ELSE 10 * int(Take(s, Len(s) - 1)) + DigitVal(s[Len(s)])

\* unicode(n) for n >= 0: the decimal digits, no padding.
RECURSIVE unicode(_)
unicode(n) ==
    IF n < 10 THEN <<DigitChars[n + 1]>>
    ELSE unicode(n \div 10) \o <<DigitChars[(n % 10) + 1]>>

(***************************************************************************)
(* Patterns.  Ch(c) is a character of a pattern, Var(conv, args, name) a   *)
(* placeholder; conv is None for <name>, args is the text between the      *)
(* parentheses (empty when there are none).                                *)
(***************************************************************************)
Ch(c) == [lit |-> c, converter |-> None, args |-> <<>>, variable |-> None]

Var(conv, args, name) ==
    [lit |-> None, converter |-> conv, args |-> args, variable |-> name]

IsVar(sym) == sym.lit = None

IsSlash(sym) == sym.lit = "/"

\* The characters of a static run of a pattern.
RECURSIVE Chars(_)
Chars(syms) ==
    IF syms = <<>> THEN <<>> ELSE <<Head(syms).lit>> \o Chars(Tail(syms))

\* The length of the static run that starts the pattern.
RECURSIVE StaticRun(_)
StaticRun(syms) ==
    IF syms = <<>> \/ IsVar(Head(syms)) THEN 0 ELSE 1 + StaticRun(Tail(syms))

\* parse_rule: the tokens (converter, arguments, variable) in order; a static
\* part has converter None and its text as variable.  A variable name used
\* twice ends the tokens with the ValueError the generator raises there.
RECURSIVE parse_rule_from(_, _)
parse_rule_from(syms, used_names) ==
    IF syms = <<>> THEN <<>>
    ELSE LET n == StaticRun(syms)
         IN  IF n > 0
             THEN <<[converter |-> None, arguments |-> <<>>,
                     variable |-> Chars(Take(syms, n)), raises |-> None]>>
                  \o parse_rule_from(Drop(syms, n), used_names)
             ELSE LET v == Head(syms)
                  IN  IF v.variable \in used_names
                      THEN <<[converter |-> None, arguments |-> <<>>,
                              variable |-> <<>>, raises |-> "ValueError"]>>
                      ELSE <<[converter |-> IF v.converter = None
                                            THEN "default" ELSE v.converter,
                              arguments |-> v.args,
                              variable |-> <<v.variable>>,
                              raises |-> None]>>
                           \o parse_rule_from(Tail(syms),
                                              used_names \cup {v.variable})

parse_rule(rule) == parse_rule_from(rule, {})

(***************************************************************************)
(* parse_arguments: the converters' argument parser.  An argument text is  *)
(* made of key atoms ("max"), "=", "," and value characters.  defaults     *)
(* maps each key to [conv, dflt].                                          *)
(***************************************************************************)
\* The key a stripped text names: the atom itself, or no key of any defaults.
KeyOf(text) == IF Len(text) = 1 THEN text[1] ELSE "?"

\* conv(value.strip()) for conv = int: the number, or the ValueError of int().
\* conv = bool compares the lowered text with 'true'.
ConvValue(conv, text) ==
    IF conv = "bool" THEN [raises |-> None, value |-> IF text = <<"true">> THEN 1 ELSE 0]
    ELSE IF IsDigits(text) THEN [raises |-> None, value |-> int(text)]
    ELSE [raises |-> "ValueError", value |-> 0]

\* The while loop: result after the loop, or the exception that ends it.
RECURSIVE parse_arguments_loop(_, _, _)
parse_arguments_loop(rest, result, defaults) ==
    LET tmp == split1(rest, "=")
    IN  IF Len(tmp) # 2 THEN [raises |-> None, result |-> result]
        ELSE LET key    == KeyOf(strip(tmp[1]))
                 rest1  == tmp[2]
                 tmp2   == split(rest1, ",")
             IN  IF key \notin DOMAIN defaults
                 THEN [raises |-> "ValueError", result |-> result]
                 ELSE IF Len(tmp2) # 2
                 \* value = tmp is a list: value.strip() does not exist
                 THEN [raises |-> "AttributeError", result |-> result]
                 ELSE LET cv == ConvValue(defaults[key].conv, strip(tmp2[1]))
                      IN  IF cv.raises # None
                          THEN [raises |-> cv.raises, result |-> result]
                          ELSE parse_arguments_loop(tmp2[2],
                                   (key :> cv.value) @@ result, defaults)

\* The closing loop over defaults stores every default over the parsed value.
OverlayDefaults(result, defaults) ==
    [k \in (DOMAIN result) \cup (DOMAIN defaults) |->
        IF k \in DOMAIN defaults THEN defaults[k].dflt ELSE result[k]]

\* What parse_arguments returns once the while loop has ended as looped.
parse_arguments_end(looped, defaults) ==
    IF looped.raises # None THEN looped
    ELSE [raises |-> None, result |-> OverlayDefaults(looped.result, defaults)]

parse_arguments(argstring, defaults) ==
    parse_arguments_end(parse_arguments_loop(argstring, <<>>, defaults), defaults)

(***************************************************************************)
(* Converters.  A converter object is a record of its class, its regex and *)
(* the options its constructor kept.  Booleans of the options are 0 and 1. *)
(***************************************************************************)
IntegerDefaults ==
    ("fixed_digits" :> [conv |-> "int", dflt |-> -1]) @@
    ("min" :> [conv |-> "int", dflt |-> 0]) @@
    ("max" :> [conv |-> "int", dflt |-> -1])

UnicodeDefaults ==
    ("minlength" :> [conv |-> "int", dflt |-> 0]) @@
    ("maxlength" :> [conv |-> "int", dflt |-> -1]) @@
    ("allow_slash" :> [conv |-> "bool", dflt |-> 0])

Converter(cls, regex, fixed_digits, lo, hi) ==
    [cls |-> cls, regex |-> regex, fixed_digits |-> fixed_digits,
     min |-> lo, max |-> hi]

\* IntegerConverter.__init__ once parse_arguments has ended as parsed.
IntegerConverter_init(parsed) ==
    IF parsed.raises # None
    THEN [raises |-> parsed.raises, obj |-> Converter("", "", -1, NoneInt, NoneInt)]
    ELSE [raises |-> None,
          obj |-> Converter("IntegerConverter", "\\d+",
                      parsed.result["fixed_digits"],
                      IF parsed.result["min"] = 0 THEN NoneInt
                                                  ELSE Some(parsed.result["min"]),
                      IF parsed.result["max"] = -1 THEN NoneInt
                                                   ELSE Some(parsed.result["max"]))]

IntegerConverter(args) == IntegerConverter_init(parse_arguments(args, IntegerDefaults))

\* UnicodeConverter.__init__: min and max hold minlength and maxlength.
UnicodeConverter_init(parsed) ==
    IF parsed.raises # None
    THEN [raises |-> parsed.raises, obj |-> Converter("", "", -1, NoneInt, NoneInt)]
    ELSE [raises |-> None,
          obj |-> Converter("UnicodeConverter",
                      IF parsed.result["allow_slash"] = 1 THEN ".+?" ELSE "[^/]+",
                      -1,
                      IF parsed.result["minlength"] = 0 THEN NoneInt
                          ELSE Some(parsed.result["minlength"]),
                      IF parsed.result["maxlength"] # -1
                          THEN Some(parsed.result["maxlength"]) ELSE NoneInt)]

UnicodeConverter(args) == UnicodeConverter_init(parse_arguments(args, UnicodeDefaults))

\* Map.converters: the registry, by converter name.
ConverterNames == {"int", "string", "default"}

\* map.converters[converter](map, arguments)
NewConverter(converter, arguments) ==
    IF converter \notin ConverterNames
    THEN [raises |-> "KeyError", obj |-> Converter("", "", -1, NoneInt, NoneInt)]
    ELSE IF converter = "int" THEN IntegerConverter(arguments)
    ELSE UnicodeConverter(arguments)

\* IntegerConverter.to_python
IntegerConverter_check(conv, n) ==
    IF \/ (conv.min # NoneInt /\ n < TheInt(conv.min))
       \/ (conv.max # NoneInt /\ n > TheInt(conv.max))
    THEN [raises |-> "ValidationError", value |-> 0]
    ELSE [raises |-> None, value |-> n]

IntegerConverter_to_python(conv, value) ==
    IF conv.fixed_digits # -1 /\ Len(value) # conv.fixed_digits
    THEN [raises |-> "ValidationError", value |-> 0]
    ELSE IntegerConverter_check(conv, int(value))

\* UnicodeConverter.to_python: the text itself, within the length bounds.
UnicodeConverter_to_python(conv, value) ==
    IF \/ (conv.min # NoneInt /\ Len(value) < TheInt(conv.min))
       \/ (conv.max # NoneInt /\ Len(value) > TheInt(conv.max))
    THEN [raises |-> "ValidationError", value |-> value]
    ELSE [raises |-> None, value |-> value]

to_python(conv, value) ==
    IF conv.cls = "IntegerConverter" THEN IntegerConverter_to_python(conv, value)
    ELSE UnicodeConverter_to_python(conv, value)

\* to_url writing only the last digit of the value.
to_url_last_digit(conv, value) == unicode(value % 10)

\* BaseConverter.to_url for a number n >= 0: quote_plus leaves digits alone.
to_url(conv, value) == unicode(value)

(***************************************************************************)
(* Regular expressions, as far as Rule.bind builds them: a sequence of     *)
(* parts, each a literal text, a named group over a converter's regex, the *)
(* subdomain wildcard [^>]* or the group (?P<__suffix__>/?).  RegexSearch  *)
(* is re's backtracking search anchored by ^ and $: the first match in     *)
(* priority order, greedy parts longest first, .+? shortest first.         *)
(***************************************************************************)
Literal(text) == [kind |-> "literal", text |-> text, name |-> None, regex |-> ""]

Group(name, regex) == [kind |-> "group", text |-> <<>>, name |-> name, regex |-> regex]

Wildcard == [kind |-> "star", text |-> <<>>, name |-> None, regex |-> "[^>]*"]

Suffix == [kind |-> "optional", text |-> <<"/">>, name |-> "__suffix__", regex |-> "/?"]

InClass(regex, c) ==
    CASE regex = "\\d+"   -> IsDigit(c)
      [] regex = "[^/]+"  -> c # "/"
      [] regex = "[^>]*"  -> c # ">"
      [] OTHER            -> TRUE

\* The length of the longest prefix of s inside the class of regex.
RECURSIVE ClassRun(_, _)
ClassRun(regex, s) ==
    IF s = <<>> \/ ~InClass(regex, s[1]) THEN 0 ELSE 1 + ClassRun(regex, Tail(s))

NoMatch == [matched |-> FALSE, groups |-> <<>>]

RECURSIVE RegexMatch(_, _)
RegexMatch(parts, s) ==
    IF parts = <<>>
    THEN IF s = <<>> THEN [matched |-> TRUE, groups |-> <<>>] ELSE NoMatch
    ELSE LET p    == Head(parts)
             rest == Tail(parts)
         IN  CASE p.kind = "literal" ->
                    IF Len(s) >= Len(p.text) /\ Take(s, Len(p.text)) = p.text
                    THEN RegexMatch(rest, Drop(s, Len(p.text)))
                    ELSE NoMatch
               [] p.kind = "optional" ->
                    LET with == IF startswith(s, "/")
                                THEN RegexMatch(rest, Tail(s)) ELSE NoMatch
                        without == RegexMatch(rest, s)
                    IN  IF with.matched
                        THEN [matched |-> TRUE,
                              groups |-> (p.name :> <<"/">>) @@ with.groups]
                        ELSE IF without.matched
                        THEN [matched |-> TRUE,
                              groups |-> (p.name :> <<>>) @@ without.groups]
                        ELSE NoMatch
               [] OTHER ->
                    LET least == IF p.kind = "star" THEN 0 ELSE 1
                        ok    == {n \in least..ClassRun(p.regex, s) :
                                     RegexMatch(rest, Drop(s, n)).matched}
                        n     == IF p.regex = ".+?"
                                 THEN CHOOSE k \in ok : \A j \in ok : k <= j
                                 ELSE CHOOSE k \in ok : \A j \in ok : k >= j
                        sub   == RegexMatch(rest, Drop(s, n))
                    IN  IF ok = {} THEN NoMatch
                        ELSE IF p.kind = "star" THEN sub
                        ELSE [matched |-> TRUE,
                              groups |-> (p.name :> Take(s, n)) @@ sub.groups]

RegexSearch(regex, s) == RegexMatch(regex, s)

(***************************************************************************)
(* Rule.  A Rule object is a record of its attributes; map is 0 while the  *)
(* rule is unbound and the Map's identity afterwards; strict_slashes is    *)
(* None, "True" or "False"; _regex is <<>> (None) until bind compiles it.  *)
(***************************************************************************)
\* Rule.__init__(string, subdomain, endpoint, strict_slashes), for a string
\* that starts with '/'.
Rule(string, subdomain, endpoint, strict_slashes) ==
    [is_leaf        |-> ~(string # <<>> /\ IsSlash(string[Len(string)])),
     rule           |-> rstrip(string, Ch("/")),
     map            |-> 0,
     strict_slashes |-> strict_slashes,
     subdomain      |-> subdomain,
     endpoint       |-> endpoint,
     _trace         |-> <<>>,
     _arguments     |-> {},
     _converters    |-> <<>>,
     _regex         |-> <<>>]

\* A step of a build-trace: (is_dynamic, data).
TraceStep(is_dynamic, data) == [is_dynamic |-> is_dynamic, data |-> data]

\* The for loop of Rule.bind over parse_rule's tokens: the rule's _trace,
\* _converters and _arguments grow token by token, regex_parts beside them;
\* an exception of the parser or of a converter's constructor ends the loop
\* and leaves what the earlier tokens stored.  bind_dynamic is the loop's
\* else branch once the converter's constructor has ended as made.
RECURSIVE bind_loop(_, _, _)
bind_dynamic(tokens, self, regex_parts, made, name) ==
    IF made.raises # None
    THEN [raises |-> made.raises, self |-> self, regex_parts |-> regex_parts]
    ELSE bind_loop(Tail(tokens),
             [self EXCEPT
                 !._converters = (name :> made.obj) @@ @,
                 !._trace = @ \o <<TraceStep(TRUE, <<name>>)>>,
                 !._arguments = @ \cup {name}],
             regex_parts \o <<Group(name, made.obj.regex)>>)

bind_loop(tokens, self, regex_parts) ==
    IF tokens = <<>>
    THEN [raises |-> None, self |-> self, regex_parts |-> regex_parts]
    ELSE IF Head(tokens).raises # None
    THEN [raises |-> Head(tokens).raises, self |-> self, regex_parts |-> regex_parts]
    ELSE IF Head(tokens).converter = None
    THEN bind_loop(Tail(tokens),
             [self EXCEPT !._trace = @ \o <<TraceStep(FALSE, Head(tokens).variable)>>],
             regex_parts \o <<Literal(Head(tokens).variable)>>)
    ELSE bind_dynamic(tokens, self, regex_parts,
             NewConverter(Head(tokens).converter, Head(tokens).arguments),
             Head(tokens).variable[1])

\* The text of a subdomain: an atom, or nothing for ''.
SubText(subdomain) == IF subdomain = "" THEN <<>> ELSE <<subdomain>>

\* The regular expression Rule.bind compiles for a rule from regex_parts.
Regex(self, regex_parts) ==
    <<Literal(<<"<">>)>>
    \o (IF self.subdomain = "ALL" THEN <<Wildcard>>
        ELSE <<Literal(SubText(self.subdomain))>>)
    \o <<Literal(<<">">>)>>
    \o regex_parts
    \o (IF self.is_leaf THEN <<>> ELSE <<Suffix>>)

\* Rule.bind after its for loop has ended as looped.
bind_end(looped) ==
    IF looped.raises # None
    THEN [raises |-> looped.raises, self |-> looped.self]
    ELSE [raises |-> None,
          self |-> [looped.self EXCEPT
                       !._trace = IF looped.self.is_leaf THEN @
                                  ELSE @ \o <<TraceStep(FALSE, <<"/">>)>>,
                       !._regex = Regex(looped.self, looped.regex_parts)]]

\* Rule.bind before its for loop: the map and its defaults stored.
bind_start(self, map_id, map_strict_slashes, map_default_subdomain) ==
    [self EXCEPT
        !.map = map_id,
        !.strict_slashes = IF @ = None THEN map_strict_slashes ELSE @,
        !.subdomain = IF @ = None THEN map_default_subdomain ELSE @]

bind_from(started) == bind_end(bind_loop(parse_rule(started.rule), started, <<>>))

\* Rule.bind(map) for a rule that is not bound yet (self.map is None): the
\* rule afterwards and the exception raised, if any.  map_id is the Map's
\* identity, map_strict_slashes and map_default_subdomain its defaults.
Rule_bind(self, map_id, map_strict_slashes, map_default_subdomain) ==
    bind_from(bind_start(self, map_id, map_strict_slashes, map_default_subdomain))

\* The outcomes of Rule.match: a dict, None, or an exception.
MatchDict(result) == [kind |-> "dict", result |-> result]

MatchNone == [kind |-> "None", result |-> <<>>]

MatchRaises(exc) == [kind |-> exc, result |-> <<>>]

\* self.strict_slashes and not self.is_leaf
WantsSlash(self) == self.strict_slashes = "True" /\ ~self.is_leaf

\* The for loop of Rule.match over groups.iteritems(): the outcomes it can
\* have.  The names are visited in the dict's order, which the code does
\* not control: when one name has no converter (KeyError) and another fails
\* validation (return None), either can come first.
match_groups(self, groups) ==
    LET unknown == {n \in DOMAIN groups : n \notin DOMAIN self._converters}
        invalid == {n \in (DOMAIN groups) \ unknown :
                       to_python(self._converters[n], groups[n]).raises # None}
    IN  IF unknown # {} /\ invalid # {} THEN {MatchRaises("KeyError"), MatchNone}
        ELSE IF unknown # {} THEN {MatchRaises("KeyError")}
        ELSE IF invalid # {} THEN {MatchNone}
        ELSE {MatchDict([n \in DOMAIN groups |->
                            to_python(self._converters[n], groups[n]).value])}

\* Rule.match once the regular expression has searched the path as m.
\* groups.pop('__suffix__') runs only when the two tests before it hold.
match_found(self, m) ==
    IF ~m.matched THEN {MatchNone}
    ELSE IF WantsSlash(self) /\ m.groups["__suffix__"] = <<>>
    THEN {MatchRaises("RequestSlash")}
    ELSE IF WantsSlash(self)
    THEN match_groups(self, [n \in (DOMAIN m.groups) \ {"__suffix__"} |-> m.groups[n]])
    ELSE match_groups(self, m.groups)

\* Rule.match(path) for a bound rule: the set of outcomes the call can have.
Rule_match(self, path) == match_found(self, RegexSearch(self._regex, path))

\* Rule.build(values) for values that hold every variable of the trace: the
\* relative url.  to_url raises no ValidationError, so None is never returned.
RECURSIVE build_loop(_, _, _)
build_loop(trace, self, values) ==
    IF trace = <<>> THEN <<>>
    ELSE LET step == Head(trace)
         IN  (IF step.is_dynamic
              THEN to_url(self._converters[step.data[1]], values[step.data[1]])
              ELSE step.data)
             \o build_loop(Tail(trace), self, values)

Rule_build(self, values) == build_loop(self._trace, self, values)

\* sys.maxint of a 32-bit build.
maxint == 2147483647

\* Rule.complexity without the offset of the rules on 'ALL'.
complexity_without_offset(self) == Cardinality(self._arguments)

\* Rule.complexity
complexity(self) ==
    LET rv == Cardinality(self._arguments)
    IN  IF self.subdomain = "ALL" THEN -maxint + rv ELSE rv

\* cmp(a, b)
cmp(a, b) == IF a < b THEN -1 ELSE IF a > b THEN 1 ELSE 0

\* Rule.__cmp__(self, other)
Rule_cmp(self, other) == cmp(complexity(other), complexity(self))

(***************************************************************************)
(* Map.  The Maps of the model and the arguments of their constructors:    *)
(* Map([], 'example.com') and Map([], 'example.org', strict_slashes=False).*)
(***************************************************************************)
MapIds == {1, 2}

server_name(m) == IF m = 1 THEN "example.com" ELSE "example.org"

default_subdomain(m) == "www"

url_scheme(m) == "http"

strict_slashes(m) == IF m = 1 THEN "True" ELSE "False"

\* The Rule objects the callers construct, by identity.
S(text) == [i \in 1..Len(text) |-> Ch(text[i])]

Rules ==
    << Rule(S(<<"/">>), None, "index", None),
       Rule(S(<<"/", "a", "/">>), None, "dir", None),
       Rule(S(<<"/", "1", "/">>), None, "lax", "False"),
       Rule(S(<<"/">>) \o <<Var("int", <<>>, "id")>>, None, "item", None),
       Rule(S(<<"/">>) \o <<Var("int", <<>>, "id")>>, "ALL", "any", None),
       Rule(S(<<"/", "1">>) \o <<Var("int", <<>>, "n")>>, None, "one", None),
       Rule(S(<<"/", "a", "/">>) \o <<Var("int", <<>>, "id"), Ch("/")>>,
            "kb", "item", None),
       Rule(S(<<"/">>) \o <<Var("int", <<"max", "=", "1">>, "id")>>,
            None, "cap", None),
       Rule(S(<<"/">>) \o <<Var("int", <<"max", "=", "1", ",">>, "id")>>,
            None, "cap", None),
       Rule(S(<<"/">>) \o <<Var("int", <<"min", "=", "2", ",">>, "id")>>,
            None, "floor", None),
       Rule(S(<<"/">>) \o <<Var("int", <<"fixed_digits", "=", "2", ",">>, "id")>>,
            None, "fixed", None) >>

RuleIds == 1..Len(Rules)

\* The rules each specification registers.
RoutingRules == 1..7

ArgumentRules == {4, 8, 9, 10, 11}

BindRules == {2, 4, 8}

ConcRules == {4, 5, 6}

\* At most this many rules are bound in one run.
MaxRules == 3

VARIABLES
    rule,                 \* the Rule objects: identity -> attributes
    _rules,               \* Map._rules, per Map: the list of rule identities
    _rules_by_endpoint,   \* Map._rules_by_endpoint, per Map: endpoint -> list
    _remap,               \* Map._remap, per Map
    registered,           \* per Map, the rules in the order add_rule stored them
    last,                 \* the sequential caller's last call and its outcome
    pc,                   \* per concurrent caller: the statement it is at
    loc                   \* per concurrent caller: its call, locals and outcome

vars == <<rule, _rules, _rules_by_endpoint, _remap, registered, last, pc, loc>>

mapvars == <<rule, _rules, _rules_by_endpoint, _remap, registered>>

(***************************************************************************)
(* Calls and outcomes.  A call record names the operation, its arguments   *)
(* and how it ended: outcome is "return" or the exception raised.  rule is *)
(* the rule the call added or selected (0 when none), url the text that    *)
(* build returned or the new_url of a RequestRedirect.  origin holds the   *)
(* (endpoint, values) of an earlier match whose result the call is made    *)
(* from, when the caller chains match, build and match.                    *)
(***************************************************************************)
NoCall ==
    [op |-> "none", map |-> 0, rule |-> 0, outcome |-> "none",
     path_info |-> <<>>, script_name |-> <<>>, subdomain |-> None,
     endpoint |-> None, values |-> <<>>, force_external |-> FALSE,
     url |-> <<>>, origin |-> <<>>]

\* list.sort() with Rule.__cmp__: stable, so an insertion sort that puts
\* each rule behind every rule it does not precede.
\* An insertion that puts a rule in front of the rules it ties with.
RECURSIVE insert_before_ties(_, _, _)
insert_before_ties(sorted, r, objs) ==
    IF sorted = <<>> THEN <<r>>
    ELSE IF Rule_cmp(objs[r], objs[Head(sorted)]) <= 0
         THEN <<r>> \o sorted
         ELSE <<Head(sorted)>> \o insert_before_ties(Tail(sorted), r, objs)

RECURSIVE insert(_, _, _)
insert(sorted, r, objs) ==
    IF sorted = <<>> THEN <<r>>
    ELSE IF Rule_cmp(objs[r], objs[Head(sorted)]) < 0
         THEN <<r>> \o sorted
         ELSE <<Head(sorted)>> \o insert(Tail(sorted), r, objs)

RECURSIVE sort_from(_, _, _)
sort_from(list, sorted, objs) ==
    IF list = <<>> THEN sorted
    ELSE sort_from(Tail(list), insert(sorted, Head(list), objs), objs)

\* list.sort() that leaves the list as it is.
sort_nothing(list, objs) == list

sort(list, objs) == sort_from(list, <<>>, objs)

\* if self._remap: self._remap = False; self._rules.sort()
Remapped(m) == IF _remap[m] THEN sort(_rules[m], rule) ELSE _rules[m]

\* script_name with the '/' that match and build append when it is missing
Script(script_name) ==
    IF endswith(script_name, "/") THEN script_name ELSE script_name \o <<"/">>

\* subdomain, or the Map's default for None
Sub(m, subdomain) == IF subdomain = None THEN default_subdomain(m) ELSE subdomain

\* u'<%s>/%s' % (subdomain, path_info.lstrip('/'))
Key(subdomain, path_info) ==
    <<"<">> \o SubText(subdomain) \o <<">", "/">> \o lstrip(path_info, "/")

\* A redirect url that keeps the '/' that ends script_name.
RedirectUrl_whole_script(m, subdomain, script_name, path_info) ==
    <<url_scheme(m), "://">>
    \o (IF subdomain # "" THEN <<subdomain, ".">> ELSE <<>>)
    \o <<server_name(m)>>
    \o script_name
    \o <<"/">> \o lstrip(path_info, "/") \o <<"/">>

\* The url of the RequestRedirect that Map.match raises.
RedirectUrl(m, subdomain, script_name, path_info) ==
    <<url_scheme(m), "://">>
    \o (IF subdomain # "" THEN <<subdomain, ".">> ELSE <<>>)
    \o <<server_name(m)>>
    \o Take(script_name, Len(script_name) - 1)
    \o <<"/">> \o lstrip(path_info, "/") \o <<"/">>

\* The for loop of Map.match over list from position i: the outcomes the
\* call can have (one, but for the order of a dict inside Rule.match).
RECURSIVE match_loop(_, _, _, _)
match_loop(list, i, objs, path) ==
    IF i > Len(list) THEN {[outcome |-> "NotFound", rule |-> 0, values |-> <<>>]}
    ELSE UNION { CASE rv.kind = "None" -> match_loop(list, i + 1, objs, path)
                   [] rv.kind = "dict" ->
                        {[outcome |-> "return", rule |-> list[i], values |-> rv.result]}
                   [] rv.kind = "RequestSlash" ->
                        {[outcome |-> "RequestRedirect", rule |-> list[i],
                          values |-> <<>>]}
                   [] OTHER ->
                        {[outcome |-> rv.kind, rule |-> list[i], values |-> <<>>]}
                 : rv \in Rule_match(objs[list[i]], path) }

\* The call record of Map.match(path_info, script_name, subdomain) ending as
\* found, one of match_loop's outcomes.
MatchCall(m, path_info, script_name, subdomain, found) ==
    [NoCall EXCEPT
        !.op = "match", !.map = m, !.path_info = path_info,
        !.script_name = script_name, !.subdomain = subdomain,
        !.outcome = found.outcome, !.rule = found.rule,
        !.endpoint = IF found.outcome = "return" THEN rule[found.rule].endpoint
                     ELSE None,
        !.values = found.values,
        !.url = IF found.outcome = "RequestRedirect"
                THEN RedirectUrl(m, Sub(m, subdomain), Script(script_name), path_info)
                ELSE <<>>]

\* The check of Rule.bind left out: no rule counts as bound.
never_bound(self) == FALSE

(***************************************************************************)
(* Map.add_rule                                                            *)
(***************************************************************************)
\* Rule.bind's first test: self.map is not None
already_bound(self) == self.map # 0

\* self._rules_by_endpoint.setdefault(endpoint, []).append(r)
IndexAppend(index, endpoint, r) ==
    IF endpoint \in DOMAIN index
    THEN [index EXCEPT ![endpoint] = Append(@, r)]
    ELSE (endpoint :> <<r>>) @@ index

AddCall(m, r, outcome) ==
    [NoCall EXCEPT !.op = "add_rule", !.map = m, !.rule = r, !.outcome = outcome]

\* Map.add_rule(rule) on the Map m for the rule r, rule.bind(self) ending as
\* bound when the rule is not bound yet: the Map and the rule afterwards.
add_rule_effect(m, r, bound) ==
    IF already_bound(rule[r])
    THEN /\ UNCHANGED mapvars
    ELSE IF bound.raises # None
    THEN /\ rule' = [rule EXCEPT ![r] = bound.self]
         /\ UNCHANGED <<_rules, _rules_by_endpoint, _remap, registered>>
    ELSE /\ rule' = [rule EXCEPT ![r] = bound.self]
         /\ _rules' = [_rules EXCEPT ![m] = Append(@, r)]
         /\ _rules_by_endpoint' =
                [_rules_by_endpoint EXCEPT
                    ![m] = IndexAppend(@, bound.self.endpoint, r)]
         /\ _remap' = [_remap EXCEPT ![m] = TRUE]
         /\ registered' = [registered EXCEPT ![m] = Append(@, r)]

\* The exception Map.add_rule ends with, "return" when it returns.
add_rule_outcome(r, bound) ==
    IF already_bound(rule[r]) THEN "RuntimeError"
    ELSE IF bound.raises # None THEN bound.raises
    ELSE "return"

add_rule_bound(m, r, bound) ==
    /\ add_rule_effect(m, r, bound)
    /\ last' = AddCall(m, r, add_rule_outcome(r, bound))
    /\ UNCHANGED <<pc, loc>>

add_rule(m, r) ==
    add_rule_bound(m, r,
        Rule_bind(rule[r], m, strict_slashes(m), default_subdomain(m)))

(***************************************************************************)
(* Map.match                                                               *)
(***************************************************************************)
match(m, path_info, script_name, subdomain, origin) ==
    LET list == Remapped(m)
        path == Key(Sub(m, subdomain), path_info)
    IN  /\ _remap' = [_remap EXCEPT ![m] = FALSE]
        /\ _rules' = [_rules EXCEPT ![m] = list]
        /\ \E found \in match_loop(list, 1, rule, path) :
              last' = [MatchCall(m, path_info, script_name, subdomain, found)
                          EXCEPT !.origin = origin]
        /\ UNCHANGED <<rule, _rules_by_endpoint, registered, pc, loc>>

(***************************************************************************)
(* Map.build                                                               *)
(***************************************************************************)
\* The orders in which a for loop can visit a set: the code builds
\* set(rules) of objects hashed by identity, so any order can come out.
SetOrders(set) ==
    {order \in [1..Cardinality(set) -> set] :
        \A x \in set : \E i \in 1..Cardinality(set) : order[i] = x}

\* set(self._rules_by_endpoint.get(endpoint) or ())
possible(m, endpoint) ==
    IF endpoint \in DOMAIN _rules_by_endpoint[m]
    THEN {_rules_by_endpoint[m][endpoint][i] :
             i \in 1..Len(_rules_by_endpoint[m][endpoint])}
    ELSE {}

\* A test that lets a rule build from values that hold more than it needs.
ArgumentsFit_or_more(self, valueset) == self._arguments \subseteq valueset

\* rule._arguments == valueset
ArgumentsFit(self, valueset) == self._arguments = valueset

\* The for loop of Map.build over the rules in the order given: the rule it
\* breaks at, 0 when the loop ends without a break (Rule.build returns text
\* for every rule whose arguments fit).
RECURSIVE build_loop_over(_, _, _, _)
build_loop_over(order, i, objs, valueset) ==
    IF i > Len(order) THEN 0
    ELSE IF ArgumentsFit(objs[order[i]], valueset) THEN order[i]
    ELSE build_loop_over(order, i + 1, objs, valueset)

\* urljoin(script_name, url) for a script_name that ends with '/' and a
\* relative path made of plain segments.
urljoin(base, url) == base \o url

\* The text Map.build returns once it has the rule and its relative url rv.
BuildUrl(m, self, rv, script_name, subdomain, force_external) ==
    IF ~force_external /\ self.subdomain = subdomain
    THEN urljoin(script_name, lstrip(rv, "/"))
    ELSE <<url_scheme(m), "://">> \o SubText(self.subdomain)
         \o <<".", server_name(m)>>
         \o Take(script_name, Len(script_name) - 1)
         \o <<"/">> \o lstrip(rv, "/")

BuildCall(m, endpoint, values, script_name, subdomain, force_external, r) ==
    [NoCall EXCEPT
        !.op = "build", !.map = m, !.endpoint = endpoint, !.values = values,
        !.script_name = script_name, !.subdomain = subdomain,
        !.force_external = force_external,
        !.rule = r,
        !.outcome = IF r = 0 THEN "NotFound" ELSE "return",
        !.url = IF r = 0 THEN <<>>
                ELSE BuildUrl(m, rule[r], Rule_build(rule[r], values),
                              Script(script_name), Sub(m, subdomain), force_external)]

build(m, endpoint, values, script_name, subdomain, force_external, origin) ==
    /\ _remap' = [_remap EXCEPT ![m] = FALSE]
    /\ _rules' = [_rules EXCEPT ![m] = Remapped(m)]
    /\ \E order \in SetOrders(possible(m, endpoint)) :
          last' = [BuildCall(m, endpoint, values, script_name, subdomain,
                             force_external,
                             build_loop_over(order, 1, rule, DOMAIN values))
                      EXCEPT !.origin = origin]
    /\ UNCHANGED <<rule, _rules_by_endpoint, registered, pc, loc>>

(***************************************************************************)
(* The sequential caller: one call at a time on a Map; it takes the        *)
(* outcome of a call (Return) before it makes the next one, or makes the   *)
(* next call from the outcome (BuildBack, Rematch).                        *)
(***************************************************************************)
PathInfos ==
    { <<>>, <<"/">>, <<"/", "a">>, <<"/", "a", "/">>, <<"a">>, <<"/", "/", "a">>,
      <<"/", "1">>, <<"/", "1", "/">>, <<"/", "1", "2">>, <<"/", "0", "1", "2">>,
      <<"/", "a", "/", "1">>, <<"/", "a", "/", "1", "/">>, <<"/", "b">> }

ScriptNames == { <<"/">>, <<"/", "s">> }

Subdomains == { None, "kb", "" }

Endpoints == { "index", "dir", "lax", "item", "any", "one", "missing" }

Values ==
    { <<>>, ("id" :> 1), ("id" :> 12), ("n" :> 2), ("id" :> 1) @@ ("n" :> 2) }

BoundCount == Cardinality({r \in RuleIds : rule[r].map # 0})

Ready == last.op = "none"

InitMaps ==
    /\ rule = [r \in RuleIds |-> Rules[r]]
    /\ _rules = [m \in MapIds |-> <<>>]
    /\ _rules_by_endpoint = [m \in MapIds |-> <<>>]
    /\ _remap = [m \in MapIds |-> TRUE]
    /\ registered = [m \in MapIds |-> <<>>]

Init ==
    /\ InitMaps
    /\ last = NoCall
    /\ pc = <<>>
    /\ loc = <<>>

AddRuleOn(maps, rules) ==
    \E m \in maps, r \in rules :
        /\ Ready
        /\ already_bound(rule[r]) \/ BoundCount < MaxRules
        /\ add_rule(m, r)

AddRule == AddRuleOn({1}, RoutingRules)

Match ==
    \E p \in PathInfos, s \in ScriptNames, d \in Subdomains :
        /\ Ready
        /\ match(1, p, s, d, <<>>)

Build ==
    \E e \in Endpoints, v \in Values, s \in ScriptNames, d \in {None, "kb"},
       f \in BOOLEAN :
        /\ Ready
        /\ build(1, e, v, s, d, f, <<>>)

\* m.build(endpoint, values) from the (endpoint, values) a match returned
BuildBack ==
    /\ last.op = "match" /\ last.outcome = "return" /\ last.origin = <<>>
    /\ build(last.map, last.endpoint, last.values, <<"/">>, None, FALSE,
             <<[endpoint |-> last.endpoint, values |-> last.values,
                rule |-> last.rule, path_info |-> last.path_info,
                subdomain |-> last.subdomain]>>)

\* The subdomain and the path of the url build returned: those of the url
\* when it is absolute, else the url itself on the subdomain build was
\* called for.
UrlSubdomain(m, url, subdomain) ==
    IF Len(url) >= 2 /\ url[2] = "://"
    THEN IF url[3] = "." THEN "" ELSE url[3]
    ELSE Sub(m, subdomain)

UrlPath(m, url) ==
    IF Len(url) >= 2 /\ url[2] = "://"
    THEN Drop(url, Find(url, server_name(m)))
    ELSE url

\* the url of that build, matched again
Rematch ==
    /\ last.op = "build" /\ last.outcome = "return" /\ last.origin # <<>>
    /\ match(last.map, UrlPath(last.map, last.url), <<"/">>,
             UrlSubdomain(last.map, last.url, last.subdomain), last.origin)

Return ==
    /\ ~Ready
    /\ last' = NoCall
    /\ UNCHANGED <<mapvars, pc, loc>>

Next == AddRule \/ Match \/ Build \/ BuildBack \/ Rematch \/ Return

Spec == Init /\ [][Next]_vars

(***************************************************************************)
(* What the properties below speak of, read from the rules as the callers  *)
(* wrote them and from the calls, not from what bind and sort computed.    *)
(***************************************************************************)
\* The variable names of a rule's pattern.
VarNames(r) ==
    {Rules[r].rule[i].variable :
        i \in {j \in 1..Len(Rules[r].rule) : IsVar(Rules[r].rule[j])}}

\* The number of placeholders of a rule's pattern.
VarCount(r) ==
    Cardinality({j \in 1..Len(Rules[r].rule) : IsVar(Rules[r].rule[j])})

OnAll(r) == Rules[r].subdomain = "ALL"

\* r1 has a strictly lower specificity score than r2.
ScoreBelow(r1, r2) ==
    \/ OnAll(r1) /\ ~OnAll(r2)
    \/ OnAll(r1) = OnAll(r2) /\ VarCount(r1) < VarCount(r2)

SameScore(r1, r2) == ~ScoreBelow(r1, r2) /\ ~ScoreBelow(r2, r1)

\* The place of rule r in the order of registration on Map m.
RegPos(m, r) == CHOOSE i \in 1..Len(registered[m]) : registered[m][i] = r

Registered(m) == {registered[m][i] : i \in 1..Len(registered[m])}

\* The combined key of the last match call.
LastKey == Key(Sub(last.map, last.subdomain), last.path_info)

\* Rule r's pattern matches the input of the last match call.
PatternMatches(r) == RegexSearch(rule[r]._regex, LastKey).matched

\* Rule r, asked alone, returns variables for the input of the last match.
Accepts(r) == \E o \in Rule_match(rule[r], LastKey) : o.kind = "dict"

Matched == last.op = "match" /\ last.outcome = "return"

\* C1: match never returns a rule when a rule of strictly higher specificity
\* score (number of variables, rules on subdomain 'ALL' below all others)
\* matches the same input; a rule on 'ALL' is never returned when a rule with
\* an explicit subdomain matches the same input.
C1_HigherScoreWins ==
    Matched =>
        \A r \in Registered(last.map) :
            Accepts(r) =>
                /\ ~ScoreBelow(last.rule, r)
                /\ ~(OnAll(last.rule) /\ ~OnAll(r))

\* C1's case: a rule with an explicit subdomain is returned although a rule
\* on 'ALL', registered before it, accepts the same input.
C1_Witness ==
    /\ Matched
    /\ \E r \in Registered(last.map) :
          /\ Accepts(r) /\ OnAll(r) /\ ~OnAll(last.rule)
          /\ RegPos(last.map, r) < RegPos(last.map, last.rule)

\* The list is in descending score, rules of equal score in the order of
\* their registration.
ScanOrder(m) ==
    \A i, j \in 1..Len(_rules[m]) :
        i < j =>
            /\ ~ScoreBelow(_rules[m][i], _rules[m][j])
            /\ SameScore(_rules[m][i], _rules[m][j]) =>
                  RegPos(m, _rules[m][i]) < RegPos(m, _rules[m][j])

\* C2: every match scans the rules in descending score, rules of equal score
\* in registration order, whatever add_rule, match and build calls came
\* before; of several rules of equal score that match the input, match
\* returns the one registered first.
C2_StableScanOrder ==
    last.op = "match" =>
        /\ ScanOrder(last.map)
        /\ last.outcome = "return" =>
              \A r \in Registered(last.map) :
                  (Accepts(r) /\ SameScore(r, last.rule)) =>
                      RegPos(last.map, last.rule) <= RegPos(last.map, r)

\* C2's case: three rules, the returned one tied with a rule registered
\* after it that accepts the same input, and the rule registered first
\* moved behind both by the sort.
C2_Witness ==
    /\ Matched
    /\ Len(_rules[last.map]) = 3
    /\ \E r \in Registered(last.map) :
          /\ r # last.rule /\ Accepts(r) /\ SameScore(r, last.rule)
          /\ RegPos(last.map, last.rule) < RegPos(last.map, r)
    /\ RegPos(last.map, _rules[last.map][3]) = 1

\* The first rule in scan order whose pattern matches the input of the last
\* match call, 0 when none does.
FirstMatching ==
    LET list == _rules[last.map]
        hits == {i \in 1..Len(list) : PatternMatches(list[i])}
    IN  IF hits = {} THEN 0
        ELSE list[CHOOSE i \in hits : \A j \in hits : i <= j]

\* The script prefix without the slash that ends it.
ScriptPrefix(script_name) ==
    IF endswith(script_name, "/") THEN Take(script_name, Len(script_name) - 1)
    ELSE script_name

\* scheme://[subdomain.]server + script prefix + path + "/"
SlashUrl(path) ==
    <<url_scheme(last.map), "://">>
    \o (IF Sub(last.map, last.subdomain) = "" THEN <<>>
        ELSE <<Sub(last.map, last.subdomain), ".">>)
    \o <<server_name(last.map)>>
    \o ScriptPrefix(last.script_name)
    \o path \o <<"/">>

\* The first matching rule is a non-leaf rule with strict_slashes enabled.
StrictBranchFirst ==
    /\ last.op = "match"
    /\ FirstMatching # 0
    /\ ~rule[FirstMatching].is_leaf
    /\ rule[FirstMatching].strict_slashes = "True"

\* C3 as stated: when the first matching rule is a non-leaf rule with
\* strict_slashes and the requested path has no trailing slash, match
\* redirects to scheme://[subdomain.]server + script prefix + the original
\* path + one slash.
C3_AsStated ==
    (StrictBranchFirst /\ ~endswith(last.path_info, "/")) =>
        /\ last.outcome = "RequestRedirect"
        /\ last.url = SlashUrl(last.path_info)

\* The requested path with its leading slashes replaced by one.
Normal(path_info) == <<"/">> \o lstrip(path_info, "/")

\* C3 amended: the same with the requested path read with exactly one leading
\* slash, in the test for the trailing slash and in the url.
C3_SlashRedirect ==
    (StrictBranchFirst /\ ~endswith(Normal(last.path_info), "/")) =>
        /\ last.outcome = "RequestRedirect"
        /\ last.url = SlashUrl(Normal(last.path_info))

\* C3's case: a redirect for a rule with a variable, on a subdomain, under a
\* script prefix given without its slash.
C3_Witness ==
    /\ last.op = "match" /\ last.outcome = "RequestRedirect"
    /\ last.subdomain = "kb" /\ last.script_name = <<"/", "s">>
    /\ VarCount(last.rule) = 1
    /\ last.url = <<"http", "://", "kb", ".", "example.com",
                    "/", "s", "/", "a", "/", "1", "/">>

\* The rules registered under the endpoint of the last build call whose
\* variables are exactly the keys of its values, in registration order.
Candidates ==
    IF last.endpoint \in DOMAIN _rules_by_endpoint[last.map]
    THEN SelectSeq(_rules_by_endpoint[last.map][last.endpoint],
                   LAMBDA r : VarNames(r) = DOMAIN last.values)
    ELSE <<>>

\* The url build returns from rule r for the arguments of the last build.
UrlFrom(r) ==
    BuildUrl(last.map, rule[r], Rule_build(rule[r], last.values),
             Script(last.script_name), Sub(last.map, last.subdomain),
             last.force_external)

\* C4: build selects the first rule in registration order, among the rules
\* of the endpoint, whose variables are exactly the keys of values; the url
\* is the one built from the earliest-registered of them.
C4_FirstRegisteredBuilds ==
    (last.op = "build" /\ last.outcome = "return") =>
        /\ Candidates # <<>>
        /\ last.rule = Candidates[1]
        /\ last.url = UrlFrom(Candidates[1])

\* C5: build fails with NotFound whenever no rule of the endpoint has
\* variables exactly equal to the keys of values, and never builds from a
\* rule whose variables differ from the keys.
C5_ExactArgumentSet ==
    last.op = "build" =>
        /\ Candidates = <<>> => last.outcome = "NotFound"
        /\ last.outcome = "return" =>
              /\ VarNames(last.rule) = DOMAIN last.values
              /\ last.endpoint = Rules[last.rule].endpoint
              /\ last.rule \in Registered(last.map)

\* C5's case: NotFound for an endpoint whose only rule needs a variable more
\* than the values hold.
C5_Witness ==
    /\ last.op = "build" /\ last.outcome = "NotFound"
    /\ last.endpoint \in DOMAIN _rules_by_endpoint[last.map]
    /\ \A i \in 1..Len(_rules_by_endpoint[last.map][last.endpoint]) :
          /\ DOMAIN last.values \subseteq
                VarNames(_rules_by_endpoint[last.map][last.endpoint][i])
          /\ DOMAIN last.values #
                VarNames(_rules_by_endpoint[last.map][last.endpoint][i])

\* C9: every match call ends in (endpoint, variables), a redirect or
\* NotFound; the variables returned are those of the selected rule; a
\* non-leaf rule with strict_slashes disabled, when it is the first rule
\* whose pattern matches, returns its endpoint.
C9_ThreeOutcomes ==
    last.op = "match" =>
        /\ last.outcome \in {"return", "RequestRedirect", "NotFound"}
        /\ last.outcome = "return" => DOMAIN last.values = VarNames(last.rule)
        /\ (/\ FirstMatching # 0
            /\ ~rule[FirstMatching].is_leaf
            /\ rule[FirstMatching].strict_slashes = "False") =>
              last.outcome = "return" /\ last.rule = FirstMatching

\* The match call whose result the last call was made from.
Origin == last.origin[1]

Rematched == last.op = "match" /\ last.origin # <<>>

\* C6 as stated: whenever match succeeds with (endpoint, variables), the url
\* of build(endpoint, variables), matched again on the subdomain of that
\* url, succeeds with the same endpoint and equal variables.
C6_AsStated ==
    Rematched =>
        /\ last.outcome = "return"
        /\ last.endpoint = Origin.endpoint
        /\ last.values = Origin.values

\* The rule the first match selected is the only rule of its endpoint with
\* its set of variables.
OnlyCandidate ==
    \A i \in 1..Len(_rules_by_endpoint[last.map][Origin.endpoint]) :
        LET r == _rules_by_endpoint[last.map][Origin.endpoint][i]
        IN  VarNames(r) = VarNames(Origin.rule) => r = Origin.rule

\* The digits the first match captured, per variable.
Captured ==
    RegexSearch(rule[Origin.rule]._regex,
                Key(Sub(last.map, Origin.subdomain), Origin.path_info)).groups

\* Every number of the first path was written without leading zeros.
CanonicalDigits ==
    \A n \in VarNames(Origin.rule) :
        Captured[n] = <<"0">> \/ Captured[n][1] # "0"

\* C6 amended: the round trip holds when the rule that match selected is the
\* only rule of its endpoint with that set of variables and every number in
\* the matched path is written without leading zeros.
C6_RoundTrip ==
    (Rematched /\ OnlyCandidate /\ CanonicalDigits) =>
        /\ last.outcome = "return"
        /\ last.endpoint = Origin.endpoint
        /\ last.values = Origin.values

\* C6's case: a round trip through a non-leaf rule on another subdomain,
\* whose url is absolute, with three rules registered.
C6_Witness ==
    /\ Rematched /\ OnlyCandidate /\ CanonicalDigits
    /\ last.outcome = "return"
    /\ VarCount(last.rule) = 1
    /\ ~rule[last.rule].is_leaf
    /\ last.subdomain = "kb"
    /\ Len(_rules[last.map]) = 3

(***************************************************************************)
(* Rules whose patterns give the int converter arguments: a caller that    *)
(* registers them on one Map and matches paths against it.                 *)
(***************************************************************************)
AddArgumentRule == AddRuleOn({1}, ArgumentRules)

NextArgs == AddArgumentRule \/ Match \/ Return

SpecArgs == Init /\ [][NextArgs]_vars

\* The argument text of a rule's placeholder, as the caller wrote it.
ArgText(r) ==
    LET i == CHOOSE j \in 1..Len(Rules[r].rule) : IsVar(Rules[r].rule[j])
    IN  Rules[r].rule[i].args

HasBound(r) == VarCount(r) = 1 /\ ArgText(r) # <<>>

\* The option the argument text names and the number it gives it.
BoundKey(r) == Take(ArgText(r), Find(ArgText(r), "=") - 1)

BoundNumber(r) ==
    int(split1(Drop(ArgText(r), Find(ArgText(r), "=")), ",")[1])

\* The digits text keeps the bound that rule r's pattern states.
Within(r, text) ==
    CASE BoundKey(r) = <<"max">> -> int(text) <= BoundNumber(r)
      [] BoundKey(r) = <<"min">> -> int(text) >= BoundNumber(r)
      [] BoundKey(r) = <<"fixed_digits">> -> Len(text) = BoundNumber(r)

\* C7: a rule whose pattern bounds its int placeholder (min=, max= or
\* fixed_digits=) can be added to a Map, the only error being that of a rule
\* already bound, and match returns such a rule only for a path whose
\* captured digits keep the bound.
C7_BoundsEnforced ==
    /\ (last.op = "add_rule" /\ HasBound(last.rule)) =>
           last.outcome \in {"return", "RuntimeError"}
    /\ (Matched /\ HasBound(last.rule)) =>
           Within(last.rule,
                  RegexSearch(rule[last.rule]._regex, LastKey).groups["id"])

(***************************************************************************)
(* Rules offered to two Maps: a caller that adds rules, bound or not, to   *)
(* either Map.                                                             *)
(***************************************************************************)
AddRuleAnywhere == AddRuleOn(MapIds, BindRules)

NextBind == AddRuleAnywhere \/ Return

SpecBind == Init /\ [][NextBind]_vars

\* C8: add_rule with a rule that is already bound, to the same Map or to
\* another one, raises RuntimeError and leaves the rule lists, the endpoint
\* indexes, the needs-resort flags and every field of the rule (its regex,
\* its trace, its arguments, the Map it is bound to) as they were.
C8_BoundOnce ==
    [][(last'.op = "add_rule" /\ rule[last'.rule].map # 0) =>
           /\ last'.outcome = "RuntimeError"
           /\ _rules' = _rules
           /\ _rules_by_endpoint' = _rules_by_endpoint
           /\ _remap' = _remap
           /\ rule' = rule]_vars

\* C8's case: both Maps hold rules, and a rule bound to one of them has just
\* been refused by the other.
C8_Witness ==
    /\ last.op = "add_rule"
    /\ last.outcome = "RuntimeError"
    /\ rule[last.rule].map # last.map
    /\ rule[last.rule]._regex # <<>>
    /\ _rules[1] # <<>> /\ _rules[2] # <<>>

(***************************************************************************)
(* Two concurrent callers on one Map, without a lock: each executes        *)
(* add_rule, match and build statement by statement, pc[t] the statement   *)
(* caller t is at and loc[t] the locals of its call.  loc[t].overlap and   *)
(* loc[t].missed are history: whether a call of the other caller was in    *)
(* progress at some time during the call, and whether the for loop of      *)
(* match returned a rule while a rule of higher specificity that accepts   *)
(* the same input was in the list.                                         *)
(***************************************************************************)
Callers == {1, 2}

Other(t) == CHOOSE u \in Callers : u # t

\* The Map the callers share.
Shared == 1

ConcPaths == { <<"/", "1", "2">>, <<"/", "2">> }

NoLocals ==
    [op |-> "none", rule |-> 0, path_info |-> <<>>, endpoint |-> None,
     values |-> <<>>, i |-> 0, outcome |-> "none", found |-> 0,
     overlap |-> FALSE, missed |-> FALSE]

InitConc ==
    /\ InitMaps
    /\ last = NoCall
    /\ pc = [t \in Callers |-> "idle"]
    /\ loc = [t \in Callers |-> NoLocals]

\* Caller t enters a call with the locals given; the call overlaps the call
\* the other caller is in, if it is in one.
Enter(t, first, locals) ==
    /\ pc[t] = "idle"
    /\ pc' = [pc EXCEPT ![t] = first]
    /\ loc' = [u \in Callers |->
                  IF u = t THEN [locals EXCEPT !.overlap = pc[Other(t)] # "idle"]
                  ELSE [loc[u] EXCEPT !.overlap = @ \/ pc[u] # "idle"]]
    /\ UNCHANGED <<mapvars, last>>

\* Caller t ends its call with the outcome given.
Leave(t, outcome, found, missed) ==
    /\ pc' = [pc EXCEPT ![t] = "idle"]
    /\ loc' = [loc EXCEPT ![t].outcome = outcome, ![t].found = found,
                          ![t].missed = missed]

Goto(t, next) ==
    /\ pc' = [pc EXCEPT ![t] = next]
    /\ UNCHANGED loc

\* add_rule(rule): each Rule object is handed to add_rule by one caller at
\* a time.
add_rule_call(t) ==
    \E r \in ConcRules :
        /\ ~(pc[Other(t)] # "idle" /\ loc[Other(t)].op = "add_rule"
             /\ loc[Other(t)].rule = r)
        /\ Enter(t, "bind", [NoLocals EXCEPT !.op = "add_rule", !.rule = r])

\* rule.bind(self), ending as bound when the rule is not bound yet
add_rule_bind_as(t, r, bound) ==
    /\ pc[t] = "bind"
    /\ IF already_bound(rule[r])
       THEN /\ Leave(t, "RuntimeError", 0, FALSE)
            /\ UNCHANGED rule
       ELSE /\ rule' = [rule EXCEPT ![r] = bound.self]
            /\ IF bound.raises # None
               THEN Leave(t, bound.raises, 0, FALSE)
               ELSE Goto(t, "append")
    /\ UNCHANGED <<_rules, _rules_by_endpoint, _remap, registered, last>>

add_rule_bind(t) ==
    add_rule_bind_as(t, loc[t].rule,
        Rule_bind(rule[loc[t].rule], Shared, strict_slashes(Shared),
                  default_subdomain(Shared)))

\* self._rules.append(rule)
add_rule_append(t) ==
    /\ pc[t] = "append"
    /\ _rules' = [_rules EXCEPT ![Shared] = Append(@, loc[t].rule)]
    /\ registered' = [registered EXCEPT ![Shared] = Append(@, loc[t].rule)]
    /\ Goto(t, "index")
    /\ UNCHANGED <<rule, _rules_by_endpoint, _remap, last>>

\* self._rules_by_endpoint.setdefault(rule.endpoint, []).append(rule)
add_rule_index(t) ==
    /\ pc[t] = "index"
    /\ _rules_by_endpoint' =
           [_rules_by_endpoint EXCEPT
               ![Shared] = IndexAppend(@, rule[loc[t].rule].endpoint, loc[t].rule)]
    /\ Goto(t, "remap")
    /\ UNCHANGED <<rule, _rules, _remap, registered, last>>

\* self._remap = True
add_rule_remap(t) ==
    /\ pc[t] = "remap"
    /\ _remap' = [_remap EXCEPT ![Shared] = TRUE]
    /\ Leave(t, "return", 0, FALSE)
    /\ UNCHANGED <<rule, _rules, _rules_by_endpoint, registered, last>>

\* match(path_info)
match_call(t) ==
    \E p \in ConcPaths :
        Enter(t, "test", [NoLocals EXCEPT !.op = "match", !.path_info = p,
                                          !.i = 1])

\* build(endpoint, values)
build_call(t) ==
    \E e \in {"item", "any"} :
        Enter(t, "test", [NoLocals EXCEPT !.op = "build", !.endpoint = e,
                                          !.values = [id |-> 1]])

\* What follows the re-sort in the call caller t is in.
AfterRemap(t) == IF loc[t].op = "match" THEN "for" ELSE "possible"

\* if self._remap:
remap_test(t) ==
    /\ pc[t] = "test"
    /\ Goto(t, IF _remap[Shared] THEN "clear" ELSE AfterRemap(t))
    /\ UNCHANGED <<mapvars, last>>

\* self._remap = False
remap_clear(t) ==
    /\ pc[t] = "clear"
    /\ _remap' = [_remap EXCEPT ![Shared] = FALSE]
    /\ Goto(t, "sort")
    /\ UNCHANGED <<rule, _rules, _rules_by_endpoint, registered, last>>

\* self._rules.sort()
remap_sort(t) ==
    /\ pc[t] = "sort"
    /\ _rules' = [_rules EXCEPT ![Shared] = sort(@, rule)]
    /\ Goto(t, AfterRemap(t))
    /\ UNCHANGED <<rule, _rules_by_endpoint, _remap, registered, last>>

\* A rule of the list that accepts path has a higher specificity than r.
Overtaken(list, r, path) ==
    \E j \in 1..Len(list) :
        /\ ScoreBelow(r, list[j])
        /\ \E o \in Rule_match(rule[list[j]], path) : o.kind = "dict"

\* One turn of the for loop of match, rule.match(path) ending as rv: the
\* list iterator reads the list as it is now, at its own position.
match_for_as(t, list, path, rv) ==
    CASE rv.kind = "None" ->
            /\ loc' = [loc EXCEPT ![t].i = @ + 1]
            /\ UNCHANGED pc
      [] rv.kind = "dict" ->
            Leave(t, "return", list[loc[t].i],
                  Overtaken(list, list[loc[t].i], path))
      [] rv.kind = "RequestSlash" ->
            Leave(t, "RequestRedirect", list[loc[t].i], FALSE)
      [] OTHER -> Leave(t, rv.kind, list[loc[t].i], FALSE)

match_for_in(t, list, path) ==
    /\ pc[t] = "for"
    /\ IF loc[t].i > Len(list)
       THEN Leave(t, "NotFound", 0, FALSE)
       ELSE \E rv \in Rule_match(rule[list[loc[t].i]], path) :
                match_for_as(t, list, path, rv)
    /\ UNCHANGED <<mapvars, last>>

match_for(t) ==
    match_for_in(t, _rules[Shared],
                 Key(Sub(Shared, None), loc[t].path_info))

\* build from possible = set(...) to its end
build_rest_with(t, r) ==
    Leave(t, IF r = 0 THEN "NotFound" ELSE "return", r, FALSE)

build_rest(t) ==
    /\ pc[t] = "possible"
    /\ \E order \in SetOrders(possible(Shared, loc[t].endpoint)) :
          build_rest_with(t,
              build_loop_over(order, 1, rule, DOMAIN loc[t].values))
    /\ UNCHANGED <<mapvars, last>>

NextConc ==
    \E t \in Callers :
        \/ add_rule_call(t) \/ add_rule_bind(t) \/ add_rule_append(t)
        \/ add_rule_index(t) \/ add_rule_remap(t)
        \/ match_call(t) \/ build_call(t)
        \/ remap_test(t) \/ remap_clear(t) \/ remap_sort(t)
        \/ match_for(t) \/ build_rest(t)

SpecConc == InitConc /\ [][NextConc]_vars

\* C10: the for loop of match returns a rule of lower specificity than a
\* rule of the list that accepts the same input only in a call that a call
\* of the other caller overlapped; a caller alone never does.
C10_MissOnlyWhenOverlapped ==
    \A t \in Callers : loc[t].missed => loc[t].overlap

\* C10's case: a match has returned the lower rule from a list that was not
\* in order while the flag read clear, the other caller's add_rule having
\* appended its rule and not yet set the flag.
C10_Witness ==
    \E t \in Callers :
        /\ loc[t].op = "match" /\ loc[t].missed
        /\ loc[Other(t)].op = "add_rule"
        /\ pc[Other(t)] \in {"index", "remap"}
        /\ ~_remap[Shared]
        /\ _rules[Shared] # sort(_rules[Shared], rule)

====
